---- MODULE Spec2Model ----
(***************************************************************************)
(* Online-Image-Resizer: processImage (src/utils/imageProcessor.ts) and    *)
(* the App component that calls it (src/unnamed/part_000).                 *)
(*                                                                         *)
(* processImage is modelled one step per `await`: loading the file, each   *)
(* canvas.toBlob encode of the PNG dimension search, each encode of the    *)
(* JPEG/WEBP quality search, the fallback encode.  The decoder and the     *)
(* encoder are the browser's: they are the environment, and their          *)
(* outcomes are chosen by `backend`.                                       *)
(*                                                                         *)
(* Numbers.  `scale` is an IEEE-754 double in the code and is kept as one  *)
(* here: a bit string (least significant bit first) counting units of      *)
(* 2^-57, with every operation rounded to 53 significant bits the way the  *)
(* hardware rounds it.  Qualities are k/1024 for an integer k: the ten     *)
(* halvings of [0,1] are exact in a double.  Sizes are bytes.              *)
(***************************************************************************)
EXTENDS Integers, Sequences, FiniteSets

\* ---------------------------------------------------------------- bounds

\* Decoded images are 1..MaxW wide and 1..MaxH high.
MaxW == 6
MaxH == 6
\* The caller's targetSizeKB ranges over 1..MaxTargetKB.
MaxTargetKB == 2
\* An unconstrained encoder returns 128 * n bytes for n in 7..MaxSteps.
MaxSteps == 10

\* ------------------------------------------------- IEEE-754 double helpers

\* A double in [0, 128) is kept exactly, as the integer N with value
\* N * 2^-FracBits, written in NLimbs limbs of LimbBits bits, least
\* significant limb first.  (TLC's integers are 32 bits wide.)
LimbBits == 16
NLimbs == 4
FracBits == 57
\* Significant bits of a double.
MantBits == 53

LimbBase == 2 ^ LimbBits

\* The double 1.0 = 2^57 * 2^-57.
DOne == <<0, 0, 0, 512>>

\* The double nearest 0.05: 0x1.999999999999ap-5 = 0x0019 9999 9999 999A * 2^-57.
DStep == <<39322, 39321, 39321, 25>>

\* The double nearest 0.1: 0x1.999999999999ap-4 = 0x0033 3333 3333 3334 * 2^-57.
DFloor == <<13108, 13107, 13107, 51>>

\* Number of bits of a limb's value.
BitLen(x) ==
    IF x = 0 THEN 0 ELSE CHOOSE n \in 1..LimbBits : 2 ^ (n - 1) <= x /\ x < 2 ^ n

\* Position of the most significant 1 bit, counted from 1 (0 for zero).
Msb(a) ==
    LET used == {k \in 1..NLimbs : a[k] # 0}
    IN  IF used = {} THEN 0
        ELSE LET top == CHOOSE k \in used : \A j \in used : j <= k
             IN  LimbBits * (top - 1) + BitLen(a[top])

\* a > b
FGt(a, b) ==
    \E k \in 1..NLimbs :
        /\ a[k] > b[k]
        /\ \A j \in (k + 1)..NLimbs : a[j] = b[j]

RECURSIVE SubFrom(_, _, _, _)
\* Limbs k..NLimbs of a - b, with `borrow` coming in at limb k (a >= b).
SubFrom(a, b, k, borrow) ==
    IF k > NLimbs THEN <<>>
    ELSE LET d == a[k] - b[k] - borrow
         IN  <<(d + LimbBase) % LimbBase>>
             \o SubFrom(a, b, k + 1, IF d < 0 THEN 1 ELSE 0)

RECURSIVE MulFrom(_, _, _, _)
\* Limbs k..NLimbs of a * n, with `carry` coming in at limb k.
MulFrom(a, n, k, carry) ==
    IF k > NLimbs THEN <<>>
    ELSE LET t == a[k] * n + carry
         IN  <<t % LimbBase>> \o MulFrom(a, n, k + 1, t \div LimbBase)

RECURSIVE AddFrom(_, _, _)
\* Limbs k..NLimbs of a + carry * LimbBase^(k-1).
AddFrom(a, k, carry) ==
    IF k > NLimbs THEN <<>>
    ELSE LET t == a[k] + carry
         IN  <<t % LimbBase>> \o AddFrom(a, k + 1, t \div LimbBase)

\* The exact value `a` rounded to a double: 53 significant bits, round to
\* nearest, ties to even.  (Fewer than LimbBits bits are ever dropped.)
RoundToDouble(a) ==
    LET d == Msb(a) - MantBits
    IN  IF d <= 0 THEN a
        ELSE LET unit == 2 ^ d
                 rest == a[1] % unit
                 kept == <<a[1] - rest>> \o Tail(a)
                 odd  == (a[1] \div unit) % 2 = 1
                 up   == 2 * rest > unit \/ (2 * rest = unit /\ odd)
             IN  IF up THEN AddFrom(kept, 1, unit) ELSE kept

\* The double a - b (a >= b >= 0): the exact difference, computed once, then
\* rounded.
FSub(a, b) ==
    CHOOSE r \in {RoundToDouble(exact) : exact \in {SubFrom(a, b, 1, 0)}} : TRUE

\* The double n * a for a non-negative integer n.
FMulInt(n, a) ==
    CHOOSE r \in {RoundToDouble(exact) : exact \in {MulFrom(a, n, 1, 0)}} : TRUE

\* Math.round of a non-negative double: floor(a + 0.5).  One half is
\* 2^(FracBits-1), a bit of the top limb; the limbs below it cannot carry
\* into the integer part.
MathRound(a) ==
    LET shift == FracBits - LimbBits * (NLimbs - 1)
    IN  (a[NLimbs] + 2 ^ (shift - 1)) \div 2 ^ shift

\* ------------------------------------------------------------------ state

VARIABLES
    \* App (React state of the component)
    originalFile, targetSizeKB, targetFormat, processedImage, isProcessing, error,
    \* the last download the App triggered: the file the linked blob was
    \* made from, and the name the download was given
    lastDownload,
    \* the processImage invocation in flight: its parameters, its position,
    \* the promise it returned, and the encode calls it has made so far
    pc, file, targetSizeBytes, format, outcome, calls,
    \* processImage's locals
    img, canvas, scale, currentBlob, minQuality, maxQuality, bestBlob, i, fallbackBlob,
    \* the browser's decoder and encoder
    backend,
    \* a direct caller of processImage: its arguments, how many times it has
    \* called, and what the first call returned
    input, runs, first

appVars   == <<originalFile, targetSizeKB, targetFormat, processedImage, isProcessing, error,
               lastDownload>>
callVars  == <<pc, file, targetSizeBytes, format, outcome, calls>>
localVars == <<img, canvas, scale, currentBlob, minQuality, maxQuality, bestBlob, i, fallbackBlob>>
callerVars == <<input, runs, first>>
vars == <<appVars, callVars, localVars, backend, callerVars>>

\* ------------------------------------------------------------------ values

PNG == "image/png"
\* processImage's TargetFormat.
ProcessFormats == {"image/jpeg", "image/png", "image/webp"}
\* App's TargetFormat.
AppFormats == ProcessFormats \cup {"image/jpg"}

\* Quality 1 in units of 1/1024.
QOne == 1024
\* The loop bound written as i <= 10.
MaxIterationsOffByOne == 10 + 1

\* Iterations of the quality search.
MaxIterations == 10

\* `null` for a File, a Blob, the decoded image, the processed image.
NoFile  == [name |-> <<>>, type |-> "none", decodes |-> FALSE, width |-> 0, height |-> 0]
NullBlob == [src |-> "none", width |-> 0, height |-> 0, format |-> "none", quality |-> 0, size |-> 0]
NoImage == [width |-> 0, height |-> 0]
NoProcessed == [url |-> NullBlob, size |-> 0]
NoError == "none"
NoDownload == [href |-> <<>>, download |-> <<>>]

\* The promise processImage returned.
Pending      == [status |-> "pending",  blob |-> NullBlob, error |-> NoError]
Resolved(b)  == [status |-> "resolved", blob |-> b,        error |-> NoError]
Rejected(e)  == [status |-> "rejected", blob |-> NullBlob, error |-> e]

\* File names are sequences of characters.
\* A decodable image file of the given dimensions, "img.png".
ImageFile(w, h) ==
    [name |-> <<"i", "m", "g", ".", "p", "n", "g">>, type |-> "image", decodes |-> TRUE, width |-> w, height |-> h]
\* A file whose bytes are no image although its type says so, "c.v2.png".
CorruptFile ==
    [name |-> <<"c", ".", "v", "2", ".", "p", "n", "g">>, type |-> "image", decodes |-> FALSE, width |-> 0, height |-> 0]

\* ------------------------------------------------------------ environment

\* A pure encoder is a function of the canvas and the parameters:
\* base + perPixel * pixels, plus for the lossy codecs a part that grows with
\* quality (perQuality) and one that does not grow with it (ripple).
PureSize(b, w, h, fmt, q) ==
    b.base + b.perPixel * w * h
    + (IF fmt = PNG THEN 0
       ELSE (b.perQuality * q) \div QOne + b.ripple * ((q \div 128) % 2))

AnyBackend == [kind |-> "any", base |-> 0, perPixel |-> 0, perQuality |-> 0, ripple |-> 0]
PureBackends ==
    [kind : {"pure"}, base : {0, 1100}, perPixel : {20, 100},
     perQuality : {0, 1024}, ripple : {0, 400}]
AnySizes == {128 * n : n \in 7..MaxSteps}

\* canvas.toBlob on a w x h canvas: what the callback may be handed.  A canvas
\* with no pixels serializes to null; otherwise a blob, of any size (or null)
\* under an unconstrained encoder, of the one size a pure encoder gives.
ToBlobOutcomes(w, h, fmt, q) ==
    IF w = 0 \/ h = 0 THEN {[ok |-> FALSE, size |-> 0]}
    ELSE IF backend.kind = "any"
         THEN {[ok |-> TRUE, size |-> n] : n \in AnySizes} \cup {[ok |-> FALSE, size |-> 0]}
         ELSE {[ok |-> TRUE, size |-> PureSize(backend, w, h, fmt, q)]}

\* canvas.getContext('2d'): a pure backend always has one.
ContextOutcomes == IF backend.kind = "any" THEN {TRUE, FALSE} ELSE {TRUE}

\* ----------------------------------------------------------- processImage

\* The comparison of the search turned round.
FitsInverted(size, target) == size >= target

\* currentBlob.size <= targetSizeBytes
Fits(size, target) == size <= target

\* A tolerance of twice the budget.
OverToleranceDoubled(size, target) == size > 2 * target

\* fallbackBlob.size > targetSizeBytes * 1.2.  Sizes and targets are whole
\* bytes, for which the double comparison and 5 * size > 6 * target agree.
OverTolerance(size, target) == 5 * size > 6 * target

\* minQuality + maxQuality / 2: the parentheses forgotten.
MidpointUnparenthesised(lo, hi) == lo + hi \div 2

\* (minQuality + maxQuality) / 2
Midpoint(lo, hi) == (lo + hi) \div 2

\* minQuality kept from the call before.
StaleMinQuality == minQuality

\* let minQuality = 0
FreshMinQuality == 0

\* A floor of 0.05.
ScaleFloorHalved == DStep

\* The floor the PNG loop compares scale with: 0.1.
ScaleFloor == DFloor

\* currentBlob.size > targetSizeBytes && scale > 0.1
ShrinkAgain(size, target, s) == size > target /\ FGt(s, ScaleFloor)

\* Math.round(img.width * scale)
ScaledDim(n, s) == MathRound(FMulInt(n, s))

\* The blob toBlob hands over.
MakeBlob(w, h, q, size) ==
    [src |-> file.name, width |-> w, height |-> h, format |-> format,
     quality |-> q, size |-> size]

\* getCanvasBlob resolving with whatever toBlob hands over, null included.
BlobMissingIgnored(out) == FALSE

\* getCanvasBlob's `if (blob) resolve(blob) else reject(...)`.
BlobMissing(out) == ~out.ok

\* One getCanvasBlob call as an observer of the encoder sees it: the canvas
\* and the parameters handed over, whether a blob came back and whether it
\* was within the budget.
CallRecord(w, h, q, out) ==
    [width |-> w, height |-> h, format |-> format, quality |-> q,
     ok |-> out.ok, fits |-> out.ok /\ out.size <= targetSizeBytes]

\* processImage(f, kb, fmt) is called: up to `await loadImage(file)`.
StartRun(f, kb, fmt) ==
    /\ pc' = "load"
    /\ file' = f
    /\ targetSizeBytes' = kb * 1024
    /\ format' = fmt
    /\ outcome' = Pending
    /\ calls' = <<>>

\* The promise rejects with e.
Reject(e) ==
    /\ outcome' = Rejected(e)
    /\ pc' = "done"

\* loadImage settles; the canvas is created and drawn; the search begins.
LoadImage ==
    /\ pc = "load"
    /\ \E ctx \in ContextOutcomes :
        IF ~file.decodes
        THEN /\ Reject("decode")
             /\ UNCHANGED localVars
        ELSE IF ~ctx
        THEN /\ Reject("context")
             /\ img' = [width |-> file.width, height |-> file.height]
             /\ UNCHANGED <<canvas, scale, currentBlob, minQuality, maxQuality, bestBlob, i,
                            fallbackBlob>>
        ELSE /\ img' = [width |-> file.width, height |-> file.height]
             /\ canvas' = [width |-> file.width, height |-> file.height]
             /\ IF format = PNG
                THEN /\ pc' = "png"
                     /\ UNCHANGED <<minQuality, maxQuality, bestBlob, i>>
                ELSE /\ pc' = "lossy"
                     /\ minQuality' = FreshMinQuality
                     /\ maxQuality' = QOne
                     /\ bestBlob' = NullBlob
                     /\ i' = 0
             /\ UNCHANGED <<outcome, scale, currentBlob, fallbackBlob>>
    /\ UNCHANGED <<file, targetSizeBytes, format, calls>>
    /\ UNCHANGED <<appVars, backend, callerVars>>

\* PNG: the encode at the original dimensions, and scale = 1.0.
PngFirstEncode ==
    /\ pc = "png"
    /\ \E out \in ToBlobOutcomes(canvas.width, canvas.height, format, QOne) :
        /\ calls' = Append(calls, CallRecord(canvas.width, canvas.height, QOne, out))
        /\ IF BlobMissing(out)
           THEN /\ Reject("encode")
                /\ UNCHANGED <<currentBlob, scale>>
           ELSE /\ currentBlob' = MakeBlob(canvas.width, canvas.height, QOne, out.size)
                /\ scale' = DOne
                /\ pc' = "pngloop"
                /\ UNCHANGED outcome
    /\ UNCHANGED <<file, targetSizeBytes, format>>
    /\ UNCHANGED <<img, canvas, minQuality, maxQuality, bestBlob, i, fallbackBlob>>
    /\ UNCHANGED <<appVars, backend, callerVars>>

\* PNG: the loop condition holds; scale is decremented, the canvas resized and
\* redrawn, and toBlob called.  processImage is suspended until the blob comes.
PngShrink ==
    /\ pc = "pngloop"
    /\ ShrinkAgain(currentBlob.size, targetSizeBytes, scale)
    /\ scale' = FSub(scale, DStep)
    /\ canvas' = [width  |-> ScaledDim(img.width, scale'),
                  height |-> ScaledDim(img.height, scale')]
    /\ pc' = "pngawait"
    /\ UNCHANGED <<file, targetSizeBytes, format, outcome, calls>>
    /\ UNCHANGED <<img, currentBlob, minQuality, maxQuality, bestBlob, i, fallbackBlob>>
    /\ UNCHANGED <<appVars, backend, callerVars>>

\* PNG: the blob of the resized canvas comes (or null), in a later turn of the
\* event loop; currentBlob is assigned and the loop goes round.
PngEncoded ==
    /\ pc = "pngawait"
    /\ \E out \in ToBlobOutcomes(canvas.width, canvas.height, format, QOne) :
        /\ calls' = Append(calls, CallRecord(canvas.width, canvas.height, QOne, out))
        /\ IF BlobMissing(out)
           THEN /\ Reject("encode")
                /\ UNCHANGED currentBlob
           ELSE /\ currentBlob' = MakeBlob(canvas.width, canvas.height, QOne, out.size)
                /\ pc' = "pngloop"
                /\ UNCHANGED outcome
    /\ UNCHANGED <<file, targetSizeBytes, format>>
    /\ UNCHANGED <<img, canvas, scale, minQuality, maxQuality, bestBlob, i, fallbackBlob>>
    /\ UNCHANGED <<appVars, backend, callerVars>>

\* PNG: the loop ends and currentBlob is returned.
PngReturn ==
    /\ pc = "pngloop"
    /\ ~ShrinkAgain(currentBlob.size, targetSizeBytes, scale)
    /\ outcome' = Resolved(currentBlob)
    /\ pc' = "done"
    /\ UNCHANGED <<file, targetSizeBytes, format, calls>>
    /\ UNCHANGED <<localVars, appVars, backend, callerVars>>

\* JPEG/WEBP: one iteration of the binary search.
LossyIteration ==
    /\ pc = "lossy"
    /\ i < MaxIterations
    /\ LET quality == Midpoint(minQuality, maxQuality)
       IN  \E out \in ToBlobOutcomes(canvas.width, canvas.height, format, quality) :
            /\ calls' = Append(calls, CallRecord(canvas.width, canvas.height, quality, out))
            /\ IF BlobMissing(out)
               THEN /\ Reject("encode")
                    /\ UNCHANGED <<currentBlob, minQuality, maxQuality, bestBlob, i>>
               ELSE /\ currentBlob' = MakeBlob(canvas.width, canvas.height, quality, out.size)
                    /\ IF Fits(out.size, targetSizeBytes)
                       THEN /\ bestBlob' = MakeBlob(canvas.width, canvas.height, quality, out.size)
                            /\ minQuality' = quality
                            /\ UNCHANGED maxQuality
                       ELSE /\ maxQuality' = quality
                            /\ UNCHANGED <<minQuality, bestBlob>>
                    /\ i' = i + 1
                    /\ UNCHANGED <<pc, outcome>>
    /\ UNCHANGED <<file, targetSizeBytes, format>>
    /\ UNCHANGED <<img, canvas, scale, fallbackBlob>>
    /\ UNCHANGED <<appVars, backend, callerVars>>

\* JPEG/WEBP: the search found a blob within budget.
LossyReturnBest ==
    /\ pc = "lossy"
    /\ i >= MaxIterations
    /\ bestBlob # NullBlob
    /\ outcome' = Resolved(bestBlob)
    /\ pc' = "done"
    /\ UNCHANGED <<file, targetSizeBytes, format, calls>>
    /\ UNCHANGED <<localVars, appVars, backend, callerVars>>

\* JPEG/WEBP: nothing fitted; one more encode at minQuality.
LossyFallback ==
    /\ pc = "lossy"
    /\ i >= MaxIterations
    /\ bestBlob = NullBlob
    /\ \E out \in ToBlobOutcomes(canvas.width, canvas.height, format, minQuality) :
        /\ calls' = Append(calls, CallRecord(canvas.width, canvas.height, minQuality, out))
        /\ IF BlobMissing(out)
           THEN /\ Reject("encode")
                /\ UNCHANGED fallbackBlob
           ELSE /\ fallbackBlob' = MakeBlob(canvas.width, canvas.height, minQuality, out.size)
                /\ IF OverTolerance(out.size, targetSizeBytes)
                   THEN Reject("budget")
                   ELSE /\ outcome' = Resolved(fallbackBlob')
                        /\ pc' = "done"
    /\ UNCHANGED <<file, targetSizeBytes, format>>
    /\ UNCHANGED <<img, canvas, scale, currentBlob, minQuality, maxQuality, bestBlob, i>>
    /\ UNCHANGED <<appVars, backend, callerVars>>

ProcessImage ==
    \/ LoadImage
    \/ PngFirstEncode
    \/ PngShrink
    \/ PngEncoded
    \/ PngReturn
    \/ LossyIteration
    \/ LossyReturnBest
    \/ LossyFallback

\* ------------------------------------------------- a direct caller of it

Files == {ImageFile(w, h) : w \in 1..MaxW, h \in 1..MaxH} \cup {CorruptFile}

\* What processImage is called with.  An unconstrained encoder's sizes do not
\* depend on the dimensions and the quality search never changes them, so
\* there one image stands for all.
Inputs ==
    {in \in [file : Files, targetSizeKB : 1..MaxTargetKB,
             targetFormat : ProcessFormats, backend : PureBackends \cup {AnyBackend}] :
        (in.backend.kind = "any" /\ in.targetFormat # PNG)
            => in.file \in {ImageFile(MaxW, MaxH), CorruptFile}}

NoFirst == [outcome |-> Pending, calls |-> <<>>]

Init ==
    /\ input \in Inputs
    /\ backend = input.backend
    /\ runs = 0
    /\ first = NoFirst
    /\ originalFile = NoFile
    /\ targetSizeKB = 100
    /\ targetFormat = "image/jpeg"
    /\ processedImage = NoProcessed
    /\ isProcessing = FALSE
    /\ error = NoError
    /\ lastDownload = NoDownload
    /\ pc = "idle"
    /\ file = NoFile
    /\ targetSizeBytes = 0
    /\ format = "none"
    /\ outcome = Pending
    /\ calls = <<>>
    /\ img = NoImage
    /\ canvas = NoImage
    /\ scale = DOne
    /\ currentBlob = NullBlob
    /\ minQuality = 0
    /\ maxQuality = 0
    /\ bestBlob = NullBlob
    /\ i = 0
    /\ fallbackBlob = NullBlob

\* The first call.
Call ==
    /\ pc = "idle"
    /\ runs = 0
    /\ StartRun(input.file, input.targetSizeKB, input.targetFormat)
    /\ runs' = 1
    /\ UNCHANGED <<input, first, localVars, appVars, backend>>

\* The same call once more, on the same (pure) backend.
CallAgain ==
    /\ pc = "done"
    /\ runs = 1
    /\ backend.kind = "pure"
    /\ first' = [outcome |-> outcome, calls |-> calls]
    /\ StartRun(input.file, input.targetSizeKB, input.targetFormat)
    /\ runs' = 2
    /\ UNCHANGED <<input, localVars, appVars, backend>>

Next ==
    \/ Call
    \/ CallAgain
    \/ LoadImage
    \/ PngFirstEncode
    \/ PngShrink
    \/ PngEncoded
    \/ PngReturn
    \/ LossyIteration
    \/ LossyReturnBest
    \/ LossyFallback

Spec == Init /\ [][Next]_vars

\* The PNG path alone, with the event loop's promise that a settled await is
\* resumed.
InitPng == Init /\ input.targetFormat = PNG

NextPng ==
    \/ Call
    \/ CallAgain
    \/ LoadImage
    \/ PngFirstEncode
    \/ PngShrink
    \/ PngEncoded
    \/ PngReturn

SpecPng == InitPng /\ [][NextPng]_vars /\ WF_vars(NextPng)

\* -------------------------------------------------------------------- App

\* The files the user may pick: two images ("a.png", and "b" with no
\* extension), a file that is no image though its type says so, and a file of
\* another type ("n.txt").
FileA == [name |-> <<"a", ".", "p", "n", "g">>, type |-> "image", decodes |-> TRUE, width |-> 6, height |-> 6]
FileB == [name |-> <<"b">>, type |-> "image", decodes |-> TRUE, width |-> 3, height |-> 2]
TextFile == [name |-> <<"n", ".", "t", "x", "t">>, type |-> "text", decodes |-> FALSE, width |-> 0, height |-> 0]
AppFiles == {FileA, FileB, CorruptFile, TextFile}

\* Positions of the size slider the user moves to (its range is 20..1024).
SliderValues == {20, 100}

\* Pure encoders whose sizes lie around the App's targets.
AppBackends ==
    {[kind |-> "pure", base |-> 0, perPixel |-> 3000, perQuality |-> 0, ripple |-> 0],
     [kind |-> "pure", base |-> 30000, perPixel |-> 3000, perQuality |-> 81920, ripple |-> 0]}

\* What the catch block shows: an Error's message, or the fixed text for a
\* rejection that is no Error (loadImage rejects with the error event).
ErrorMessage(e) == IF e = "decode" THEN "unknown" ELSE e

\* The user picks a file.
HandleFileChange ==
    /\ \E f \in AppFiles :
        IF f.type # "image"
        THEN /\ error' = "invalid-file"
             /\ UNCHANGED <<originalFile, processedImage>>
        ELSE /\ originalFile' = f
             /\ processedImage' = NoProcessed
             /\ error' = NoError
    /\ UNCHANGED <<targetSizeKB, targetFormat, isProcessing, lastDownload>>
    /\ UNCHANGED <<callVars, localVars, backend, callerVars>>

\* The user moves the size slider (ControlsPanel is shown once a file is chosen).
SetTargetSizeKB ==
    /\ originalFile # NoFile
    /\ \E v \in SliderValues : targetSizeKB' = v
    /\ UNCHANGED <<originalFile, targetFormat, processedImage, isProcessing, error, lastDownload>>
    /\ UNCHANGED <<callVars, localVars, backend, callerVars>>

\* The user selects an output format.
SetTargetFormat ==
    /\ originalFile # NoFile
    /\ \E v \in AppFormats : targetFormat' = v
    /\ UNCHANGED <<originalFile, targetSizeKB, processedImage, isProcessing, error, lastDownload>>
    /\ UNCHANGED <<callVars, localVars, backend, callerVars>>

\* The user clicks Resize (shown once a file is chosen, disabled while
\* processing): up to the await of processImage.
HandleProcessImage ==
    /\ originalFile # NoFile
    /\ ~isProcessing
    /\ IF originalFile = NoFile
       THEN /\ error' = "no-file"
            /\ UNCHANGED <<isProcessing, processedImage, callVars>>
       ELSE /\ isProcessing' = TRUE
            /\ error' = NoError
            /\ processedImage' = NoProcessed
            /\ StartRun(originalFile, targetSizeKB,
                        IF targetFormat = "image/jpg" THEN "image/jpeg" ELSE targetFormat)
    /\ UNCHANGED <<originalFile, targetSizeKB, targetFormat, lastDownload>>
    /\ UNCHANGED <<localVars, backend, callerVars>>

\* Nothing is left of a call once its caller has its result.
FrameReleased ==
    /\ pc' = "idle"
    /\ file' = NoFile
    /\ targetSizeBytes' = 0
    /\ format' = "none"
    /\ outcome' = Pending
    /\ calls' = <<>>
    /\ img' = NoImage
    /\ canvas' = NoImage
    /\ scale' = DOne
    /\ currentBlob' = NullBlob
    /\ minQuality' = 0
    /\ maxQuality' = 0
    /\ bestBlob' = NullBlob
    /\ i' = 0
    /\ fallbackBlob' = NullBlob

\* processImage has settled: the rest of handleProcessImage.  The size is
\* kept in bytes (the code shows size / 1024).
AwaitProcessImage ==
    /\ isProcessing
    /\ pc = "done"
    /\ IF outcome.status = "resolved"
       THEN /\ processedImage' = [url |-> outcome.blob, size |-> outcome.blob.size]
            /\ UNCHANGED error
       ELSE /\ error' = ErrorMessage(outcome.error)
            /\ processedImage' = NoProcessed
    /\ isProcessing' = FALSE
    /\ FrameReleased
    /\ UNCHANGED <<originalFile, targetSizeKB, targetFormat, lastDownload>>
    /\ UNCHANGED <<backend, callerVars>>

\* name.lastIndexOf(c): the 0-based index of the last c, -1 when there is none.
LastIndexOf(name, c) ==
    LET at == {k \in 1..Len(name) : name[k] = c}
    IN  IF at = {} THEN -1
        ELSE (CHOOSE k \in at : \A j \in at : j <= k) - 1

\* name.substring(start, end): both clamped to 0..length, swapped when
\* start > end.
Substring(name, start, end) ==
    LET Clamp(n) == IF n < 0 THEN 0 ELSE IF n > Len(name) THEN Len(name) ELSE n
        lo == IF Clamp(start) <= Clamp(end) THEN Clamp(start) ELSE Clamp(end)
        hi == IF Clamp(start) <= Clamp(end) THEN Clamp(end) ELSE Clamp(start)
    IN  SubSeq(name, lo + 1, hi)

\* getFileExtension: 'jpg' for image/jpg, else mimeType.split('/')[1].
GetFileExtension(mimeType) ==
    IF mimeType = "image/jpg" THEN <<"j", "p", "g">>
    ELSE CASE mimeType = "image/jpeg" -> <<"j", "p", "e", "g">>
           [] mimeType = "image/png"  -> <<"p", "n", "g">>
           [] mimeType = "image/webp" -> <<"w", "e", "b", "p">>

\* `${originalName}_resized.${getFileExtension(targetFormat)}`
DownloadName(name, mimeType) ==
    Substring(name, 0, LastIndexOf(name, "."))
        \o <<"_", "r", "e", "s", "i", "z", "e", "d", ".">>
        \o GetFileExtension(mimeType)

\* The user clicks Download (shown while there is a processed image): a link
\* to the processed blob, named after the file and the format selected now.
HandleDownload ==
    /\ processedImage # NoProcessed
    /\ originalFile # NoFile
    /\ lastDownload' = [href |-> processedImage.url.src,
                        download |-> DownloadName(originalFile.name, targetFormat)]
    /\ UNCHANGED <<originalFile, targetSizeKB, targetFormat, processedImage, isProcessing, error>>
    /\ UNCHANGED <<callVars, localVars, backend, callerVars>>

InitApp ==
    /\ backend \in AppBackends
    /\ input = [file |-> NoFile, targetSizeKB |-> 0, targetFormat |-> "none", backend |-> backend]
    /\ runs = 0
    /\ first = NoFirst
    /\ originalFile = NoFile
    /\ targetSizeKB = 100
    /\ targetFormat = "image/jpeg"
    /\ processedImage = NoProcessed
    /\ isProcessing = FALSE
    /\ error = NoError
    /\ lastDownload = NoDownload
    /\ pc = "idle"
    /\ file = NoFile
    /\ targetSizeBytes = 0
    /\ format = "none"
    /\ outcome = Pending
    /\ calls = <<>>
    /\ img = NoImage
    /\ canvas = NoImage
    /\ scale = DOne
    /\ currentBlob = NullBlob
    /\ minQuality = 0
    /\ maxQuality = 0
    /\ bestBlob = NullBlob
    /\ i = 0
    /\ fallbackBlob = NullBlob

NextApp ==
    \/ HandleFileChange
    \/ SetTargetSizeKB
    \/ SetTargetFormat
    \/ HandleProcessImage
    \/ AwaitProcessImage
    \/ HandleDownload
    \/ LoadImage
    \/ PngFirstEncode
    \/ PngShrink
    \/ PngEncoded
    \/ PngReturn
    \/ LossyIteration
    \/ LossyReturnBest
    \/ LossyFallback

SpecApp == InitApp /\ [][NextApp]_vars

\* ---------------------------------------------------------------- claims

Lossy == format \in ProcessFormats \ {PNG}
Done == pc = "done"
Returned == pc = "done" /\ outcome.status = "resolved"

\* The calls of the quality search proper (the fallback is call 11).
SearchCalls == 1..(IF Len(calls) < 10 THEN Len(calls) ELSE 10)
NoSearchFit == \A k \in SearchCalls : ~calls[k].fits

\* C1: on the lossy path a returned blob is within the budget, or, only when
\* none of the search attempts fitted, within 1.2 times the budget; and a
\* fallback encode larger than 1.2 times the budget is answered with the
\* unreachable-budget error, never with a blob.
C1_LossySizeWithinTolerance ==
    (Lossy /\ Done) =>
        /\ outcome.status = "resolved" =>
              \/ outcome.blob.size <= targetSizeBytes
              \/ /\ NoSearchFit
                 /\ 5 * outcome.blob.size <= 6 * targetSizeBytes
        /\ ( /\ Len(calls) = 11
             /\ calls[11].ok
             /\ 5 * fallbackBlob.size > 6 * targetSizeBytes )
           => outcome = Rejected("budget")

\* C1's case: the fallback blob is over the budget, within the tolerance, and returned.
C1_Witness ==
    /\ Lossy
    /\ Returned
    /\ Len(calls) = 11
    /\ outcome.blob.size > targetSizeBytes
    /\ outcome.blob = fallbackBlob

\* C3 as stated: on the PNG path every encode is made on a canvas of
\* round(originalWidth * s) x round(originalHeight * s) for s = 1 - 0.05 * k
\* after k decrements, and scale is never below 0.1.
IdealDim(n, k) == (2 * n * (20 - k) + 20) \div 40
C3_DimsFollowNominalScale ==
    (format = PNG /\ pc \in {"pngloop", "pngawait", "done"} /\ Len(calls) >= 1) =>
        /\ \A k \in 1..Len(calls) :
              /\ calls[k].width = IdealDim(img.width, k - 1)
              /\ calls[k].height = IdealDim(img.height, k - 1)
        /\ ~FGt(DFloor, scale)

\* C4: a decode failure fails the call with no encode attempted; a failed
\* encode is the last one made, and the call has failed with that error and
\* no blob.
C4_FailuresAbortTheSearch ==
    /\ (pc \in {"png", "pngloop", "pngawait", "lossy", "done"} /\ ~file.decodes) =>
          /\ outcome = Rejected("decode")
          /\ calls = <<>>
    /\ \A k \in 1..Len(calls) :
          ~calls[k].ok =>
              /\ k = Len(calls)
              /\ pc = "done"
              /\ outcome = Rejected("encode")

\* C4's case: an encode failed after earlier ones had succeeded.
C4_Witness ==
    /\ Done
    /\ Len(calls) >= 3
    /\ ~calls[Len(calls)].ok
    /\ outcome = Rejected("encode")

\* C5 as stated: the lossy path never makes more than 10 encode calls.
C5_AtMostTenEncodes == Lossy => Len(calls) <= 10

\* C5 as amended: the lossy path makes at most 11 encode calls: the 10 of the
\* search, each at a quality of its own, and an 11th (the fallback, at quality
\* 0) only when none of the 10 fitted; a blob found by the search is returned
\* after exactly 10.
C5_AtMostElevenEncodes ==
    Lossy =>
        /\ Len(calls) <= 11
        /\ \A j, k \in SearchCalls : j # k => calls[j].quality # calls[k].quality
        /\ Len(calls) = 11 => (NoSearchFit /\ calls[11].quality = 0)
        /\ (Returned /\ ~NoSearchFit) => Len(calls) = 10

\* C5's case: the 11th encode has been made.
C5_Witness == Lossy /\ Len(calls) = 11 /\ Done

\* C6: on a pure backend a second call with the same arguments makes the same
\* encode calls, with the same results, and settles the same way: the same
\* blob, or the same error.
C6_Deterministic ==
    runs = 2 =>
        /\ Len(calls) <= Len(first.calls)
        /\ \A k \in 1..Len(calls) : calls[k] = first.calls[k]
        /\ Done => (outcome = first.outcome /\ calls = first.calls)

\* C6's case: the second call has returned a blob found by a search of several steps.
C6_Witness ==
    /\ runs = 2
    /\ Returned
    /\ Len(calls) >= 2
    /\ \E k \in 1..Len(calls) : ~calls[k].fits

\* C7: a blob the quality search returns has a quality strictly between 0 and
\* 1; quality 1 is never encoded; and when every attempt fits, all 10 are
\* made, beginning at 1/2, and the blob returned is the one at 1 - 1/1024.
C7_QualityStrictlyInside ==
    Lossy =>
        /\ \A k \in SearchCalls : calls[k].quality \in 1..1023
        /\ (Returned /\ Len(calls) = 10) => outcome.blob.quality \in 1..1023
        /\ (Done /\ Len(calls) >= 1 /\ \A k \in 1..Len(calls) : calls[k].fits) =>
              /\ Len(calls) = 10
              /\ calls[1].quality = 512
              /\ outcome.status = "resolved"
              /\ outcome.blob.quality = 1023

\* C7's case: every attempt fitted.
C7_Witness ==
    /\ Lossy
    /\ Returned
    /\ Len(calls) = 10
    /\ \A k \in 1..10 : calls[k].fits
    /\ outcome.blob.size <= targetSizeBytes

\* The pure encoder's size is non-decreasing in quality on this canvas.
Monotone ==
    /\ backend.kind = "pure"
    /\ \A q \in 0..1023 :
          PureSize(backend, canvas.width, canvas.height, format, q)
              <= PureSize(backend, canvas.width, canvas.height, format, q + 1)

\* The qualities k/1024 in (0,1) at which the pure encoder is within budget.
FittingQualities ==
    {q \in 1..1023 :
        PureSize(backend, canvas.width, canvas.height, format, q) <= targetSizeBytes}

\* C8: when some search attempt fits, the blob returned is the fitting attempt
\* of the highest quality among the attempts made; and when the encoded size
\* is non-decreasing in quality, its quality is the highest k/1024 in (0,1)
\* whose encode fits.
C8_HighestFittingQuality ==
    (Lossy /\ Returned /\ ~NoSearchFit) =>
        /\ outcome.blob.size <= targetSizeBytes
        /\ \E k \in SearchCalls :
              /\ calls[k].fits
              /\ calls[k].quality = outcome.blob.quality
        /\ \A k \in SearchCalls : calls[k].fits => calls[k].quality <= outcome.blob.quality
        /\ Monotone =>
              /\ outcome.blob.quality \in FittingQualities
              /\ \A q \in FittingQualities : q <= outcome.blob.quality

\* C8's case: a monotone encoder that fits below some quality and not above.
C8_Witness ==
    /\ Lossy
    /\ Returned
    /\ Monotone
    /\ outcome.blob.quality \in 2..1022
    /\ \E k \in SearchCalls : ~calls[k].fits
    /\ \E k \in SearchCalls : calls[k].fits

\* C9 as stated: on the PNG path every encode is made on a canvas at least one
\* pixel wide and one pixel high.
C9_CanvasNeverEmpty ==
    format = PNG =>
        \A k \in 1..Len(calls) : calls[k].width >= 1 /\ calls[k].height >= 1

\* C2: on the PNG path at most 18 decrements are made (19 encodes, and an
\* encode is awaited only after 18 or fewer have come); a call whose encodes
\* all succeeded returns its last encode, with no error, and that encode is
\* within the budget or is the one made at the floor, after the 18th
\* decrement; and every call that was started settles.
C2_PngBestEffort ==
    /\ [](format = PNG =>
            /\ Len(calls) <= 19
            /\ pc = "pngawait" => Len(calls) <= 18
            /\ (Done /\ Len(calls) >= 1 /\ \A k \in 1..Len(calls) : calls[k].ok) =>
                  /\ outcome = Resolved(currentBlob)
                  /\ outcome.blob.width = calls[Len(calls)].width
                  /\ outcome.blob.height = calls[Len(calls)].height
                  /\ (outcome.blob.size <= targetSizeBytes \/ Len(calls) = 19))
    /\ (pc = "load") ~> Done

\* C2's case: the floor was reached and its encode, still over the budget, returned.
C2_Witness ==
    /\ format = PNG
    /\ Returned
    /\ Len(calls) = 19
    /\ outcome.blob.size > targetSizeBytes

\* C10 as stated: a processed image the App holds was made from the file it
\* currently holds.
C10_ProcessedImageIsOfCurrentFile ==
    processedImage # NoProcessed => processedImage.url.src = originalFile.name

====
